---- MODULE Spec2Model ----
(***************************************************************************)
(* State-machine model of the sproxyd client (class SproxydClient):        *)
(* the bootstrap list with its rotating head, the failover controller      *)
(* (_failover), the request pipeline (_handleRequest, _createRequest) and  *)
(* the public verbs.  Every action is one JavaScript event handler run to  *)
(* completion: a public call, or the handler of one event of the HTTP      *)
(* request ('socket', 'connect', response, 'error'), of the caller's       *)
(* stream, or of the keep-alive agent.                                     *)
(***************************************************************************)
EXTENDS Integers, Sequences, FiniteSets, TLC

\* ---------------------------------------------------------------- bounds
MaxPool == 3        \* longest bootstrap list
MaxCalls == 2       \* public calls made in one behaviour
MaxSize == 1        \* bytes held by the stream of a put
MaxBatches == 6     \* most sub-requests one batchDelete is split into
MaxTestCalls == 4   \* calls the test suite makes against its own server

\* ------------------------------------------------------------- constants
E1 == <<"127.0.0.1", "9001">>
E2 == <<"127.0.0.1", "9000">>
E3 == <<"10.0.0.2", "9000">>
Endpoints == {E1, E2, E3}
NoEndpoint == <<"", "">>

Clients == {"c1", "c2"}     \* caller tasks
UserKey == "K0"              \* a key the caller supplies: 40 characters
ShortKey == "K39"            \* a string of 39 characters
ArrayKey == "A40"            \* an array of 40 elements, not a string
Keys == {"K1", "K2"}         \* keys keygen may draw
Verbs == {"put", "putEmptyObject", "get", "getHEAD", "delete", "healthcheck"}
Statuses == {200, 206, 404, 423, 500}

BatchSize == 1000            \* keys per sub-request of batchDelete
Limit == 5                   \* sub-requests of one batchDelete in flight

Sid == 89                    \* 0x59, the service id byte of a key
Cos == 112                   \* 0x70, the class of service byte of a key
RandLen == 11                \* random bytes drawn for a key

VARIABLES bootstrap, current, immutable, op, calls, rotations, probe, batch,
          gen, test, legacy

vars == <<bootstrap, current, immutable, op, calls, rotations, probe, batch,
          gen, test, legacy>>

\* ------------------------------------------------------ errors and values
SocketErrCode == 0

NoError == [isErr |-> FALSE, isExpected |-> FALSE, code |-> 0,
            retryable |-> "undefined"]

SocketError == [isErr |-> TRUE, isExpected |-> FALSE, code |-> SocketErrCode,
                retryable |-> "undefined"]

ExpectedErrorNoCode(status) ==
    [isErr |-> TRUE, isExpected |-> TRUE, code |-> 0,
     retryable |-> "undefined"]

ExpectedErrorBelow500(status) ==
    [isErr |-> TRUE, isExpected |-> status < 500, code |-> status,
     retryable |-> "undefined"]

ExpectedError(status) == [isErr |-> TRUE, isExpected |-> TRUE, code |-> status,
                          retryable |-> "undefined"]

NoRet == [kind |-> "undefined", key |-> "none", status |-> 0, usermd |-> FALSE]

KeyRet(k) == [kind |-> "key", key |-> k, status |-> 0, usermd |-> FALSE]

ResponseRet(status, md) ==
    [kind |-> "response", key |-> "none", status |-> status, usermd |-> md]

UserMdRet == [kind |-> "usermd", key |-> "none", status |-> 0, usermd |-> TRUE]

\* ---------------------------------------------------------- pure helpers
\* typeof key and key.length of the values a caller may pass as a key.
KeyType(k) == IF k = ArrayKey THEN "object" ELSE "string"

KeyLength(k) == IF k = ShortKey THEN 39 ELSE 40

AssertKeyLengthOnly(verb, k) ==
    verb \in {"get", "getHEAD", "delete"} => KeyLength(k) = 40

\* The assert.strictEqual pairs of get, getHEAD and delete; put and
\* putEmptyObject have none.
AssertKey(verb, k) ==
    verb \in {"get", "getHEAD", "delete"} =>
        (KeyType(k) = "string" /\ KeyLength(k) = 40)

\* `list.keys.every(k => k.length === 40)` on a list whose entries are
\* valid keys but for the entry odd.
AssertList(odd) == KeyLength(odd) = 40

Method(verb) ==
    CASE verb = "put" -> "PUT"
      [] verb = "putEmptyObject" -> "PUT"
      [] verb = "get" -> "GET"
      [] verb = "getHEAD" -> "HEAD"
      [] verb = "delete" -> "DELETE"
      [] verb = "healthcheck" -> "GET"
      [] verb = "batchDelete" -> "POST"
      [] OTHER -> "NONE"

HasStream(verb) == verb = "put"

IsSuccessStatus423AnyMethod(method, status) ==
    \/ status = 200
    \/ status = 206
    \/ status = 423

IsSuccessStatus(method, status) ==
    \/ status = 200
    \/ status = 206
    \/ (status = 423 /\ method = "DELETE")

StreamRetryableAbortOnly(streamingStarted, voluntaryAbort) ==
    IF voluntaryAbort THEN "false" ELSE "true"

StreamRetryableNever(streamingStarted, voluntaryAbort) == "false"

StreamRetryableAlways(streamingStarted, voluntaryAbort) == "true"

StreamRetryable(streamingStarted, voluntaryAbort) ==
    IF streamingStarted \/ voluntaryAbort THEN "false" ELSE "true"

BodylessRetryableUnset == "undefined"

BodylessRetryable == "true"

ShiftUnguarded(bs, cur, failed) ==
    LET nb == Append(Tail(bs), Head(bs))
    IN  [bootstrap |-> nb, current |-> nb[1], shifted |-> TRUE]

ShiftWithoutSetCurrent(bs, cur, failed) ==
    IF cur[1] # failed[1] \/ cur[2] # failed[2]
    THEN [bootstrap |-> bs, current |-> cur, shifted |-> FALSE]
    ELSE [bootstrap |-> Append(Tail(bs), Head(bs)), current |-> cur,
          shifted |-> TRUE]

ShiftPushingNewEntry(bs, cur, failed) ==
    IF cur[1] # failed[1] \/ cur[2] # failed[2]
    THEN [bootstrap |-> bs, current |-> cur, shifted |-> FALSE]
    ELSE LET rest == Tail(bs)
             nb == Append(rest, IF rest = <<>> THEN Head(bs) ELSE Head(rest))
         IN  [bootstrap |-> nb, current |-> nb[1], shifted |-> TRUE]

ShiftCurrentBootstrapToEnd(bs, cur, failed) ==
    IF cur[1] # failed[1] \/ cur[2] # failed[2]
    THEN [bootstrap |-> bs, current |-> cur, shifted |-> FALSE]
    ELSE LET nb == Append(Tail(bs), Head(bs))
         IN  [bootstrap |-> nb, current |-> nb[1], shifted |-> TRUE]

\* ------------------------------------------------------------- the state
IdleOp ==
    [pc |-> "idle", verb |-> "none", keyScheme |-> "none",
     key |-> "none", firstKey |-> "none", counter |-> 0,
     started |-> NoEndpoint,
     req |-> "none", callbackCalled |-> FALSE, receivedResponse |-> FALSE,
     sock |-> "none", streamingStarted |-> FALSE, voluntaryAbort |-> FALSE,
     aborted |-> FALSE, finishedFired |-> FALSE,
     stream |-> "none", sent |-> 0, pipes |-> 0,
     cbCount |-> 0, cbErr |-> NoError, cbRet |-> NoRet,
     attempts |-> <<>>, snapRot |-> 0, late |-> 0, status |-> 0,
     policy |-> "absent"]

NoBatch == [pc |-> "idle", n |-> 0, odd |-> "none", keys |-> 0,
            batches |-> <<>>, sub |-> <<>>,
            running |-> 0, done |-> FALSE, fired |-> FALSE,
            cbCount |-> 0, cbErr |-> NoError]

NoGen == [pc |-> "idle"]

\* No test server: the endpoints answer as they please.
NoTest == [pc |-> "none"]

\* No put of the legacy client under way.
NoLegacy == [pc |-> "none"]

NoProbe == [failed |-> NoEndpoint, calls |-> 0,
            first |-> [bootstrap |-> <<>>, current |-> NoEndpoint]]

\* The bootstrap lists a client is built with, in the order shuffle leaves
\* them.  Endpoints are interchangeable, so a list stands for those that
\* differ from it by a renaming: the first endpoint of a list is E1 and a
\* new endpoint is the next unused one.  An endpoint may be listed twice.
Rank(e) == IF e = E1 THEN 1 ELSE IF e = E2 THEN 2 ELSE 3

MaxRank(s, n) ==
    IF n = 0 THEN 0
    ELSE CHOOSE m \in 1..3 : /\ \E i \in 1..n : Rank(s[i]) = m
                             /\ \A i \in 1..n : Rank(s[i]) <= m

Pools ==
    {s \in UNION {[1..n -> Endpoints] : n \in 1..MaxPool} :
        \A i \in 1..Len(s) : Rank(s[i]) <= MaxRank(s, i - 1) + 1}

\* A client after construction, whatever its options.
InitClient ==
    /\ bootstrap \in Pools
    /\ current = bootstrap[1]
    /\ op = [p \in Clients |-> IdleOp]
    /\ calls = 0
    /\ rotations = 0
    /\ probe = NoProbe
    /\ batch = NoBatch
    /\ gen = NoGen
    /\ legacy = NoLegacy

\* `this.immutable = options.immutable || false`, the option left out.
Init == InitClient /\ immutable = FALSE /\ test = NoTest

\* ------------------------------------------------- the failover controller
\* What a handler leaves behind: the caller's record and the pool.
Result(o, bs, cur, rots) ==
    [o |-> o, bootstrap |-> bs, current |-> cur, rotations |-> rots]

Same(o) == Result(o, bootstrap, current, rotations)

\* `key || keygen(this.cos, params)`: a put without keyScheme draws a key.
KeyChoices(o) ==
    IF o.verb = "healthcheck" THEN {".conf"}
    ELSE IF o.keyScheme = "none" THEN Keys
    ELSE {o.keyScheme}

\* reqHeaders['X-Scal-Replica-Policy'] as _createRequestHeader leaves it.
CreateRequestHeader(imm) == IF imm THEN "immutable" ELSE "absent"

\* The headers healthcheck builds itself hold X-Scal-Request-Uids only.
HealthcheckHeader == "absent"

\* One pass through _failover down to the creation of the request.
NewRequest(o, cur, k, tries, rots) ==
    [o EXCEPT !.pc = "running", !.key = k,
              !.firstKey = IF tries = 0 THEN k ELSE @, !.counter = tries,
              !.started = cur, !.req = "pending",
              !.callbackCalled = FALSE, !.receivedResponse = FALSE,
              !.sock = "none", !.streamingStarted = FALSE,
              !.voluntaryAbort = FALSE, !.aborted = FALSE,
              !.finishedFired = FALSE,
              !.attempts = Append(@, cur), !.snapRot = rots,
              !.policy = IF o.verb = "healthcheck" THEN HealthcheckHeader
                         ELSE CreateRequestHeader(immutable)]

Deliver(o, err, ret) ==
    [o EXCEPT !.pc = "done", !.cbCount = @ + 1, !.cbErr = err, !.cbRet = ret]

\* The callbacks the public verbs hand to _failover.
PublicCallback(o, err, ret) ==
    CASE o.verb \in {"put", "putEmptyObject"} ->
            IF err.isErr THEN Deliver(o, err, NoRet)
            ELSE Deliver(o, NoError, ret)
      [] o.verb = "getHEAD" ->
            IF err.isErr THEN Deliver(o, err, NoRet)
            ELSE IF ret.usermd THEN Deliver(o, NoError, UserMdRet)
            ELSE Deliver(o, NoError, NoRet)
      [] OTHER -> Deliver(o, err, ret)

IsUnexpectedAnyError(err) == err.isErr

\* `err && !err.isExpected`
IsUnexpected(err) == err.isErr /\ ~err.isExpected

GiveUpAfterLenRetries(counter, n) == counter >= n

\* `++counter >= this.bootstrap.length`, on the count before the increment.
GiveUp(counter, n) == counter + 1 >= n

\* The callback _failover hands to _handleRequest.
FailoverCallback(o, err, ret, k) ==
    IF IsUnexpected(err)
    THEN IF o.receivedResponse THEN Same(o)
         ELSE IF err.retryable # "true"
              THEN Same(PublicCallback(o, err, NoRet))
         ELSE IF GiveUp(o.counter, Len(bootstrap))
              THEN Same(PublicCallback([o EXCEPT !.counter = @ + 1],
                                       err, NoRet))
         ELSE LET s == ShiftCurrentBootstrapToEnd(bootstrap, current,
                                                  o.started)
                  r == IF s.shifted THEN rotations + 1 ELSE rotations
              IN  Result(NewRequest(o, s.current, k, o.counter + 1, r),
                         s.bootstrap, s.current, r)
    ELSE Same(PublicCallback([o EXCEPT !.receivedResponse = TRUE], err, ret))

\* The callbacks _handleRequest hands to _createRequest.
HandleRequestErr(o, err) ==
    IF ~err.isErr THEN NoError
    ELSE [err EXCEPT !.retryable =
             IF HasStream(o.verb)
             THEN StreamRetryable(o.streamingStarted, o.voluntaryAbort)
             ELSE BodylessRetryable]

HandleRequestRetFirstKey(o, err, resp) ==
    IF err.isErr THEN NoRet
    ELSE IF HasStream(o.verb) THEN KeyRet(o.firstKey)
    ELSE resp

HandleRequestRet(o, err, resp) ==
    IF err.isErr THEN NoRet
    ELSE IF HasStream(o.verb) THEN KeyRet(o.key)
    ELSE resp

CompletionAlwaysFailover(o, err, resp, k) ==
    FailoverCallback(o, HandleRequestErr(o, err),
                     HandleRequestRet(o, err, resp), k)

\* The callback of _createRequest: healthcheck passes the caller's own.
Completion(o, err, resp, k) ==
    IF o.verb = "healthcheck" THEN Same(Deliver(o, err, resp))
    ELSE FailoverCallback(o, HandleRequestErr(o, err),
                          HandleRequestRet(o, err, resp), k)

OnErrorNoGuard(callbackCalled) == "callback"

\* The 'error' listener of _createRequest.
OnError(callbackCalled) == IF ~callbackCalled THEN "callback" ELSE "log"

StartPayloadStreaming(o) ==
    [o EXCEPT !.streamingStarted = TRUE, !.pipes = @ + 1]

StreamOnSocketNever(reusedSocket) == FALSE

StreamOnSocketAlways(reusedSocket) == TRUE

\* Whether the 'socket' listener starts streaming at once.
StreamOnSocket(reusedSocket) == reusedSocket

Apply(p, r) ==
    /\ op' = [op EXCEPT ![p] = r.o]
    /\ bootstrap' = r.bootstrap
    /\ current' = r.current
    /\ rotations' = r.rotations

\* ---------------------------------------------------------------- actions
\* put, putEmptyObject, get, getHEAD, delete, healthcheck.  A failed assert
\* throws: no request is made and the callback is never called.
Call(p, verb, ks) ==
    /\ op[p].pc \in {"idle", "done", "thrown"}
    /\ op[p].req \in {"none", "closed"}
    /\ calls < MaxCalls
    /\ verb = "put" \/ ks # "none" \/ verb = "healthcheck"
    /\ verb = "healthcheck" => ks = "none"
    /\ LET base == [IdleOp EXCEPT !.verb = verb, !.keyScheme = ks,
                                  !.stream = IF HasStream(verb) THEN "open"
                                             ELSE "none"]
       IN  IF AssertKey(verb, ks)
           THEN \E k \in KeyChoices(base) :
                   op' = [op EXCEPT ![p] = NewRequest(base, current, k, 0,
                                                      rotations)]
           ELSE op' = [op EXCEPT ![p] = [base EXCEPT !.pc = "thrown",
                                                     !.stream = "none"]]
    /\ calls' = calls + 1
    /\ UNCHANGED <<bootstrap, current, immutable, rotations, probe, batch, gen,
                   test, legacy>>

\* 'socket' event of a streaming request; the agent hands out a kept-alive
\* socket (request.reusedSocket) or a new one.
Socket(p, reusedSocket) ==
    LET o == op[p] IN
    /\ HasStream(o.verb)
    /\ o.req = "pending"
    /\ o.sock = "none"
    /\ LET o1 == [o EXCEPT !.sock = IF reusedSocket THEN "reused"
                                    ELSE "connecting"]
       IN  op' = [op EXCEPT ![p] = IF StreamOnSocket(reusedSocket)
                                   THEN StartPayloadStreaming(o1) ELSE o1]
    /\ UNCHANGED <<bootstrap, current, immutable, calls, rotations, probe,
                   batch, gen, test, legacy>>

\* 'connect' event of a fresh socket.
Connect(p) ==
    LET o == op[p] IN
    /\ o.req = "pending"
    /\ o.sock = "connecting"
    /\ op' = [op EXCEPT ![p] =
                StartPayloadStreaming([o EXCEPT !.sock = "connected"])]
    /\ UNCHANGED <<bootstrap, current, immutable, calls, rotations, probe,
                   batch, gen, test, legacy>>

\* stream.pipe(request) moves one byte; the stream ends after its last byte.
SendByte(p) ==
    LET o == op[p] IN
    /\ o.streamingStarted
    /\ o.stream = "open"
    /\ o.req \in {"pending", "responded"}
    /\ ~o.aborted
    /\ o.sent < MaxSize
    /\ op' = [op EXCEPT ![p] =
                [o EXCEPT !.sent = @ + 1,
                          !.stream = IF o.sent + 1 = MaxSize THEN "ended"
                                     ELSE "open"]]
    /\ UNCHANGED <<bootstrap, current, immutable, calls, rotations, probe,
                   batch, gen, test, legacy>>

\* The caller destroys the stream it passed to put.
StreamDestroy(p) ==
    LET o == op[p] IN
    /\ o.pc \in {"running", "done"}
    /\ o.stream = "open"
    /\ op' = [op EXCEPT ![p] = [o EXCEPT !.stream = "destroyed"]]
    /\ UNCHANGED <<bootstrap, current, immutable, calls, rotations, probe,
                   batch, gen, test, legacy>>

OnFinishedCallback(o, err) ==
    IF err
    THEN Deliver([o EXCEPT !.finishedFired = TRUE], SocketError, NoRet)
    ELSE [o EXCEPT !.finishedFired = TRUE]

OnFinishedNoAbort(o, err) == [o EXCEPT !.finishedFired = TRUE]

\* The callback of finished(stream, ...): an error aborts the request.
OnFinished(o, err) ==
    IF err
    THEN [o EXCEPT !.finishedFired = TRUE, !.aborted = TRUE,
                   !.voluntaryAbort = TRUE]
    ELSE [o EXCEPT !.finishedFired = TRUE]

FinishedBeforeStreaming(p) ==
    LET o == op[p] IN
    /\ HasStream(o.verb)
    /\ o.pc = "running"
    /\ ~o.finishedFired
    /\ o.stream \in {"ended", "destroyed"}
    /\ op' = [op EXCEPT ![p] = OnFinished(o, o.stream = "destroyed")]
    /\ UNCHANGED <<bootstrap, current, immutable, calls, rotations, probe,
                   batch, gen, test, legacy>>

\* The stream has ended or was destroyed: finished calls back.
Finished(p) ==
    LET o == op[p] IN
    /\ o.streamingStarted
    /\ ~o.finishedFired
    /\ o.stream \in {"ended", "destroyed"}
    /\ op' = [op EXCEPT ![p] = OnFinished(o, o.stream = "destroyed")]
    /\ UNCHANGED <<bootstrap, current, immutable, calls, rotations, probe,
                   batch, gen, test, legacy>>

\* The response callback of http.request.  An endpoint answers a put with
\* 200 once it has read the whole body.
Response(p, status, md) ==
    LET o == op[p] IN
    /\ o.req = "pending"
    /\ ~o.aborted
    /\ HasStream(o.verb) => o.sock \in {"connected", "reused"}
    /\ (HasStream(o.verb) /\ status = 200) => o.sent = MaxSize
    /\ md => (o.verb = "getHEAD" /\ status = 200)
    /\ LET o1 == [o EXCEPT !.callbackCalled = TRUE, !.req = "responded",
                           !.status = status]
       IN  \E k \in KeyChoices(o) :
              IF IsSuccessStatus(Method(o.verb), status)
              THEN Apply(p, Completion(o1, NoError,
                                       ResponseRet(status, md), k))
              ELSE Apply(p, Completion(o1, ExpectedError(status), NoRet, k))
    /\ UNCHANGED <<immutable, calls, probe, batch, gen, test, legacy>>

\* The 'error' event of the request.
Error(p) ==
    LET o == op[p] IN
    /\ o.req \in {"pending", "responded"}
    /\ LET o1 == [o EXCEPT !.req = "failed"]
       IN  \E k \in KeyChoices(o) :
              IF OnError(o.callbackCalled) = "callback"
              THEN Apply(p, Completion([o1 EXCEPT !.callbackCalled = TRUE],
                                       SocketError, NoRet, k))
              ELSE Apply(p, Same([o1 EXCEPT !.late = @ + 1]))
    /\ UNCHANGED <<immutable, calls, probe, batch, gen, test, legacy>>

\* 'close' of the request: it emits nothing more.
Close(p) ==
    LET o == op[p] IN
    /\ o.req \in {"responded", "failed"}
    /\ op' = [op EXCEPT ![p] = [o EXCEPT !.req = "closed"]]
    /\ UNCHANGED <<bootstrap, current, immutable, calls, rotations, probe,
                   batch, gen, test, legacy>>

\* One caller task making its calls one after the other, every verb and
\* every event of the request pipeline.
Caller == "c1"

Next ==
    \/ \E verb \in Verbs, ks \in {UserKey, "none"} : Call(Caller, verb, ks)
    \/ \E reusedSocket \in BOOLEAN : Socket(Caller, reusedSocket)
    \/ Connect(Caller)
    \/ SendByte(Caller)
    \/ StreamDestroy(Caller)
    \/ Finished(Caller)
    \/ \E status \in Statuses, md \in BOOLEAN : Response(Caller, status, md)
    \/ Error(Caller)
    \/ Close(Caller)

Spec == Init /\ [][Next]_vars

\* The caller tasks running bodyless operations concurrently on the shared
\* pool, each attempt ending in success, a definite status or an error.
ConcVerbs == {"get", "delete"}
ConcStatuses == {200, 404}

NextConc ==
    \/ \E p \in Clients, verb \in ConcVerbs : Call(p, verb, UserKey)
    \/ \E p \in Clients, status \in ConcStatuses : Response(p, status, FALSE)
    \/ \E p \in Clients : Error(p)
    \/ \E p \in Clients : Close(p)

SpecConc == Init /\ [][NextConc]_vars

\* _shiftCurrentBootstrapToEnd called twice in a row with the same endpoint,
\* on any pool.
InitShift ==
    /\ bootstrap \in UNION {[1..n -> Endpoints] : n \in 1..MaxPool}
    /\ current = bootstrap[1]
    /\ op = [p \in Clients |-> IdleOp]
    /\ calls = 0
    /\ rotations = 0
    /\ \E e \in Endpoints : probe = [NoProbe EXCEPT !.failed = e]
    /\ batch = NoBatch
    /\ immutable = FALSE
    /\ gen = NoGen
    /\ legacy = NoLegacy
    /\ test = NoTest

ShiftCall ==
    /\ probe.failed # NoEndpoint
    /\ probe.calls < 2
    /\ LET s == ShiftCurrentBootstrapToEnd(bootstrap, current, probe.failed)
       IN  /\ bootstrap' = s.bootstrap
           /\ current' = s.current
           /\ rotations' = IF s.shifted THEN rotations + 1 ELSE rotations
           /\ probe' = [probe EXCEPT
                          !.calls = @ + 1,
                          !.first = IF probe.calls = 0
                                    THEN [bootstrap |-> s.bootstrap,
                                          current |-> s.current]
                                    ELSE @]
    /\ UNCHANGED <<immutable, op, calls, batch, gen, test, legacy>>

SpecShift == InitShift /\ [][ShiftCall]_vars

\* A client built with or without the immutable option, and a caller that
\* passes any value as a key.
InitOptions == InitClient /\ immutable \in BOOLEAN /\ test = NoTest

CallerKeys == {UserKey, ShortKey, ArrayKey, "none"}

NextOptions ==
    \/ \E verb \in Verbs, ks \in CallerKeys : Call(Caller, verb, ks)
    \/ \E reusedSocket \in BOOLEAN : Socket(Caller, reusedSocket)
    \/ Connect(Caller)
    \/ SendByte(Caller)
    \/ StreamDestroy(Caller)
    \/ Finished(Caller)
    \/ \E status \in Statuses, md \in BOOLEAN : Response(Caller, status, md)
    \/ Error(Caller)
    \/ Close(Caller)

SpecOptions == InitOptions /\ [][NextOptions]_vars

\* ------------------------------------------------------------ batchDelete
Min(a, b) == IF a < b THEN a ELSE b

\* `while (list.keys.length > 0) batches.push(list.keys.splice(0, 1000))`:
\* the batches as intervals of positions of the caller's list.
RECURSIVE Split(_, _)
Split(lo, n) ==
    IF lo > n THEN <<>>
    ELSE <<[lo |-> lo, hi |-> Min(lo + BatchSize - 1, n)]>>
             \o Split(lo + BatchSize, n)

\* list.keys.length of the list that holds the positions lo..hi.
ListLength(list) == list.hi - list.lo + 1

SpliceCopying(lo, n) == [lo |-> lo, hi |-> n]

\* The caller's list when that loop ends: each turn's splice(0, 1000)
\* removes the keys it returns from the front of list.keys.
RECURSIVE Splice(_, _)
Splice(lo, n) ==
    IF ~(ListLength([lo |-> lo, hi |-> n]) > 0) THEN [lo |-> lo, hi |-> n]
    ELSE Splice(lo + Min(BatchSize, ListLength([lo |-> lo, hi |-> n])), n)

\* Lengths of the caller's list: around every multiple of the batch size.
KeyCounts ==
    {n \in 0..(MaxBatches * BatchSize) :
        n % BatchSize \in {0, 1, BatchSize - 1}}

BatchOp == [IdleOp EXCEPT !.verb = "batchDelete",
                          !.keyScheme = ".batch_delete"]

\* What is kept of a sub-request: while it runs, the closure variables of
\* its attempt; once it has called back, the outcome it delivered.
Sub(o) ==
    IF o.pc = "done"
    THEN [BatchOp EXCEPT !.pc = "done", !.req = "closed",
                         !.cbCount = o.cbCount, !.cbErr = o.cbErr,
                         !.cbRet = o.cbRet]
    ELSE [o EXCEPT !.attempts = <<>>, !.snapRot = 0]

SubRequest(cur) == Sub(NewRequest(BatchOp, cur, ".batch_delete", 0, 0))

OnceCallbackUnguarded(b, err) ==
    [b EXCEPT !.fired = TRUE, !.cbCount = @ + 1, !.cbErr = err]

\* The final callback of eachLimit, wrapped in once().
OnceCallback(b, err) ==
    IF b.fired THEN b
    ELSE [b EXCEPT !.fired = TRUE, !.cbCount = @ + 1, !.cbErr = err]

ReplenishNoLimit(b, cur) ==
    LET nb == Len(b.batches)
        fresh == [i \in (Len(b.sub) + 1)..nb |-> SubRequest(cur)]
    IN  IF b.done THEN b
        ELSE [b EXCEPT !.sub = [i \in 1..nb |-> IF i <= Len(b.sub)
                                                THEN b.sub[i] ELSE fresh[i]],
                       !.running = @ + nb - Len(b.sub),
                       !.done = TRUE]

\* replenish of eachLimit: starts iteratees while fewer than Limit run.
RECURSIVE Replenish(_, _)
Replenish(b, cur) ==
    IF ~(b.running < Limit /\ ~b.done) THEN b
    ELSE IF Len(b.sub) = Len(b.batches)
         THEN LET b1 == [b EXCEPT !.done = TRUE]
              IN  IF b1.running <= 0 THEN OnceCallback(b1, NoError) ELSE b1
    ELSE Replenish([b EXCEPT
                       !.running = @ + 1,
                       !.sub = Append(@, SubRequest(cur))],
                   cur)

\* iterateeCallback of eachLimit, the `done` a sub-request ends with.
IterateeCallbackNoStop(b, err, cur) ==
    LET b1 == [b EXCEPT !.running = @ - 1]
    IN  IF err.isErr THEN Replenish(OnceCallback(b1, err), cur)
        ELSE IF b1.done /\ b1.running <= 0 THEN OnceCallback(b1, NoError)
        ELSE Replenish(b1, cur)

IterateeCallback(b, err, cur) ==
    LET b1 == [b EXCEPT !.running = @ - 1]
    IN  IF err.isErr THEN OnceCallback([b1 EXCEPT !.done = TRUE], err)
        ELSE IF b1.done /\ b1.running <= 0 THEN OnceCallback(b1, NoError)
        ELSE Replenish(b1, cur)

\* The lists a caller passes: n valid keys, or a short list where the entry
\* odd stands in place of one key.
BatchInputs ==
    (KeyCounts \X {UserKey})
        \cup ({1, BatchSize + 1} \X {ShortKey, ArrayKey})

\* batchDelete(list, reqUids, callback); a failed assert throws.
BatchDelete(n, odd) ==
    /\ calls < MaxCalls
    /\ batch.pc = "idle"
    /\ batch' = IF AssertList(odd)
                THEN Replenish([NoBatch EXCEPT
                                   !.pc = "called", !.n = n, !.odd = odd,
                                   !.keys = ListLength(Splice(1, n)),
                                   !.batches = Split(1, n)],
                               current)
                ELSE [NoBatch EXCEPT !.pc = "thrown", !.n = n, !.odd = odd,
                                     !.keys = n]
    /\ calls' = calls + 1
    /\ UNCHANGED <<bootstrap, current, immutable, op, rotations, probe, gen,
                   test, legacy>>

\* What the end of an attempt of sub-request i does to the call.
SubCompletion(i, r) ==
    LET b1 == [batch EXCEPT !.sub[i] = Sub(r.o)]
    IN  /\ batch' = IF r.o.pc = "done"
                    THEN IterateeCallback(b1, r.o.cbErr, r.current)
                    ELSE b1
        /\ bootstrap' = r.bootstrap
        /\ current' = r.current
        /\ UNCHANGED rotations

\* The response callback of the request of sub-request i.
SubResponse(i, status) ==
    /\ i \in 1..Len(batch.sub)
    /\ batch.sub[i].req = "pending"
    /\ LET o1 == [batch.sub[i] EXCEPT !.callbackCalled = TRUE,
                                      !.req = "responded",
                                      !.status = status]
       IN  IF IsSuccessStatus(Method(o1.verb), status)
           THEN SubCompletion(i, Completion(o1, NoError,
                                            ResponseRet(status, FALSE),
                                            ".batch_delete"))
           ELSE SubCompletion(i, Completion(o1, ExpectedError(status), NoRet,
                                            ".batch_delete"))
    /\ UNCHANGED <<immutable, op, calls, probe, gen, test, legacy>>

\* The 'error' event of the request of sub-request i.
SubError(i) ==
    /\ i \in 1..Len(batch.sub)
    /\ batch.sub[i].req = "pending"
    /\ SubCompletion(i, Completion([batch.sub[i] EXCEPT
                                       !.req = "failed",
                                       !.callbackCalled = TRUE],
                                   SocketError, NoRet, ".batch_delete"))
    /\ UNCHANGED <<immutable, op, calls, probe, gen, test, legacy>>

BatchStatuses == {200, 500}

NextBatch ==
    \/ \E inp \in BatchInputs : BatchDelete(inp[1], inp[2])
    \/ \E i \in 1..MaxBatches, status \in BatchStatuses :
          SubResponse(i, status)
    \/ \E i \in 1..MaxBatches : SubError(i)

\* One batchDelete call on a client with one endpoint or with two.
BatchPools == {s \in Pools : Len(s) <= Len(<<E1, E2>>)}

InitBatch == Init /\ bootstrap \in BatchPools

SpecBatch == InitBatch /\ [][NextBatch]_vars

\* ----------------------------------------------------------------- keygen
\* The routing parameters: the strings of the key generation test, with
\* the first bytes of their MD5 digests.
Names == {"vogosphere", "poem", "jeltz"}

Md5(str) ==
    CASE str = "vogosphere" -> <<53, 211, 173, 253>>
      [] str = "poem" -> <<25, 15, 167, 112>>
      [] str = "jeltz" -> <<6, 163, 98, 174>>

\* crypto.createHash('md5').update(str).digest().slice(0, len)
CreateMd5(str, len) == SubSeq(Md5(str), 1, len)

\* The values a random byte takes here: 0x09 and 0xAB.
RandBytes == {9, 171}

\* a ^ b on bytes.
RECURSIVE Xor(_, _)
Xor(a, b) ==
    IF a = 0 THEN b
    ELSE IF b = 0 THEN a
    ELSE (((a % 2) + (b % 2)) % 2) + 2 * Xor(a \div 2, b \div 2)

HexDigits == <<"0", "1", "2", "3", "4", "5", "6", "7", "8", "9",
               "a", "b", "c", "d", "e", "f">>

\* buffer.toString('hex'): two lower-case digits for each byte.
RECURSIVE ToHex(_)
ToHex(bytes) ==
    IF bytes = <<>> THEN <<>>
    ELSE <<HexDigits[(Head(bytes) \div 16) + 1],
           HexDigits[(Head(bytes) % 16) + 1]>> \o ToHex(Tail(bytes))

UpperCaseOf(c) ==
    CASE c = "a" -> "A" [] c = "b" -> "B" [] c = "c" -> "C"
      [] c = "d" -> "D" [] c = "e" -> "E" [] c = "f" -> "F"
      [] OTHER -> c

\* string.toUpperCase()
ToUpperCase(str) == [i \in 1..Len(str) |-> UpperCaseOf(str[i])]

CreateKeyRandInRouting(params, rand) ==
    LET hashNamespace == CreateMd5(params.namespace, 2)
        hashOwner == CreateMd5(params.owner, 3)
        hashBucket == CreateMd5(params.bucketName, 4)
        key == SubSeq(rand, 1, 8)
                  \o <<hashNamespace[1],
                        Xor(hashNamespace[2], hashOwner[1]),
                        hashOwner[2],
                        Xor(Xor(hashOwner[3], hashBucket[1]), rand[1])>>
                  \o Tail(hashBucket)
                  \o <<Sid>>
                  \o SubSeq(rand, 9, 11)
                  \o <<Cos>>
    IN  ToUpperCase(ToHex(key))

CreateKeySidLast(params, rand) ==
    LET hashNamespace == CreateMd5(params.namespace, 2)
        hashOwner == CreateMd5(params.owner, 3)
        hashBucket == CreateMd5(params.bucketName, 4)
        key == SubSeq(rand, 1, 8)
                  \o <<hashNamespace[1],
                        Xor(hashNamespace[2], hashOwner[1]),
                        hashOwner[2],
                        Xor(hashOwner[3], hashBucket[1])>>
                  \o Tail(hashBucket)
                  \o <<Cos>>
                  \o SubSeq(rand, 9, 11)
                  \o <<Sid>>
    IN  ToUpperCase(ToHex(key))

\* createKey(params), on the bytes crypto.randomBytes(11) returned.
CreateKey(params, rand) ==
    LET hashNamespace == CreateMd5(params.namespace, 2)
        hashOwner == CreateMd5(params.owner, 3)
        hashBucket == CreateMd5(params.bucketName, 4)
        key == SubSeq(rand, 1, 8)
                  \o <<hashNamespace[1],
                        Xor(hashNamespace[2], hashOwner[1]),
                        hashOwner[2],
                        Xor(hashOwner[3], hashBucket[1])>>
                  \o Tail(hashBucket)
                  \o <<Sid>>
                  \o SubSeq(rand, 9, 11)
                  \o <<Cos>>
    IN  ToUpperCase(ToHex(key))

\* createKey is about to be called with any parameters, and
\* crypto.randomBytes is about to return any bytes.
InitKeygen ==
    /\ bootstrap = <<E1>>
    /\ current = E1
    /\ immutable = FALSE
    /\ op = [p \in Clients |-> IdleOp]
    /\ calls = 0
    /\ rotations = 0
    /\ probe = NoProbe
    /\ batch = NoBatch
    /\ test = NoTest
    /\ legacy = NoLegacy
    /\ \E b \in Names, n \in Names, o \in Names,
          rand \in [1..RandLen -> RandBytes] :
          gen = [pc |-> "called",
                 params |-> [bucketName |-> b, namespace |-> n, owner |-> o],
                 rand |-> rand, key |-> <<>>]

KeygenCall ==
    /\ gen.pc = "called"
    /\ gen' = [gen EXCEPT !.pc = "returned",
                          !.key = CreateKey(gen.params, gen.rand)]
    /\ UNCHANGED <<bootstrap, current, immutable, op, calls, rotations, probe,
                   batch, test, legacy>>

SpecKeygen == InitKeygen /\ [][KeygenCall]_vars

\* createKey called twice with the same parameters: the first draw of
\* random bytes repeats one value, the second draw is any.
InitKeygenPair ==
    /\ InitKeygen
    /\ \E b \in RandBytes : gen.rand = [i \in 1..RandLen |-> b]

KeygenAgain(rand) ==
    /\ gen.pc = "returned"
    /\ gen' = [pc |-> "returned twice", params |-> gen.params,
               rand |-> gen.rand, key |-> gen.key,
               rand2 |-> rand, key2 |-> CreateKey(gen.params, rand)]
    /\ UNCHANGED <<bootstrap, current, immutable, op, calls, rotations, probe,
                   batch, test, legacy>>

NextKeygenPair ==
    \/ KeygenCall
    \/ \E rand \in [1..RandLen -> RandBytes] : KeygenAgain(rand)

SpecKeygenPair == InitKeygenPair /\ [][NextKeygenPair]_vars

\* ------------------------------------------- the test suite and its server
\* The unit test's HTTP server keeps what it is sent in `server[key]`; the
\* suite puts `upload`, then gets and deletes `savedKey`.
Absent == [exists |-> FALSE, data |-> <<>>]

NoReply == [status |-> 0, data |-> <<>>]

Reply(status, data) == [status |-> status, data |-> data]

HandlerKeepsDeleted(method, key, server) ==
    CASE method = "PUT" ->
            IF server[key].exists
            THEN [server |-> server, wait |-> FALSE, reply |-> Reply(404, <<>>)]
            ELSE [server |-> [server EXCEPT ![key] =
                                 [exists |-> TRUE, data |-> <<>>]],
                  wait |-> TRUE, reply |-> NoReply]
      [] method = "GET" ->
            IF ~server[key].exists
            THEN [server |-> server, wait |-> FALSE, reply |-> Reply(404, <<>>)]
            ELSE [server |-> server, wait |-> FALSE,
                  reply |-> Reply(200, server[key].data)]
      [] OTHER ->
            IF ~server[key].exists
            THEN [server |-> server, wait |-> FALSE, reply |-> Reply(404, <<>>)]
            ELSE [server |-> server, wait |-> FALSE, reply |-> Reply(200, <<>>)]

\* handler(req, res) for PUT, GET and DELETE of an unlocked key: the store
\* it leaves, whether it waits for the body, and what it answers.
Handler(method, key, server) ==
    CASE method = "PUT" ->
            IF server[key].exists
            THEN [server |-> server, wait |-> FALSE, reply |-> Reply(404, <<>>)]
            ELSE [server |-> [server EXCEPT ![key] =
                                 [exists |-> TRUE, data |-> <<>>]],
                  wait |-> TRUE, reply |-> NoReply]
      [] method = "GET" ->
            IF ~server[key].exists
            THEN [server |-> server, wait |-> FALSE, reply |-> Reply(404, <<>>)]
            ELSE [server |-> server, wait |-> FALSE,
                  reply |-> Reply(200, server[key].data)]
      [] OTHER ->
            IF ~server[key].exists
            THEN [server |-> server, wait |-> FALSE, reply |-> Reply(404, <<>>)]
            ELSE [server |-> [server EXCEPT ![key] = Absent],
                  wait |-> FALSE, reply |-> Reply(200, <<>>)]

LogEntry(o, status) ==
    [method |-> Method(o.verb), key |-> o.key, status |-> status]

\* One server on the only endpoint of the client, its store empty; the
\* upload is drawn once.
InitTest ==
    /\ InitClient
    /\ immutable = FALSE
    /\ bootstrap = <<E1>>
    /\ \E upload \in [1..MaxSize -> RandBytes] :
          test = [pc |-> "listening", upload |-> upload,
                  server |-> [k \in Keys |-> Absent],
                  handled |-> 0, receiving |-> FALSE,
                  reply |-> NoReply, log |-> <<>>]

\* The key the suite passes to get and delete: the one the last put called
\* back with.
SavedKey(o) == IF o.verb = "put" THEN o.cbRet.key ELSE o.key

\* client.put(upStream, upload.length, ...), client.get(savedKey, ...) and
\* client.delete(savedKey, ...), each after the previous test passed.
TestCall(p, verb) ==
    LET o == op[p] IN
    /\ o.pc \in {"idle", "done"}
    /\ o.req \in {"none", "closed"}
    /\ calls < MaxTestCalls
    /\ verb # "put" => /\ o.pc = "done"
                       /\ o.verb = "put" => ~o.cbErr.isErr
    /\ LET ks == IF verb = "put" THEN "none" ELSE SavedKey(o)
           base == [IdleOp EXCEPT !.verb = verb, !.keyScheme = ks,
                                  !.stream = IF HasStream(verb) THEN "open"
                                             ELSE "none"]
       IN  \E k \in KeyChoices(base) :
              op' = [op EXCEPT ![p] = NewRequest(base, current, k, 0,
                                                 rotations)]
    /\ calls' = calls + 1
    /\ UNCHANGED <<bootstrap, current, immutable, rotations, probe, batch, gen,
                   test, legacy>>

\* The request reaches the server: handler runs.  A request with a body is
\* sent off with its first byte.
ServerHandle(p) ==
    LET o == op[p] IN
    /\ test.pc = "listening"
    /\ test.handled < calls
    /\ o.req = "pending"
    /\ ~o.aborted
    /\ HasStream(o.verb) => o.sent > 0
    /\ LET h == Handler(Method(o.verb), o.key, test.server)
       IN  test' = [test EXCEPT
                       !.server = h.server, !.handled = calls,
                       !.receiving = h.wait, !.reply = h.reply,
                       !.log = IF h.wait THEN @
                               ELSE Append(@, LogEntry(o, h.reply.status))]
    /\ UNCHANGED <<bootstrap, current, immutable, op, calls, rotations, probe,
                   batch, gen, legacy>>

\* Buffer.concat([server[key], data])
Concat(buf, data) == buf \o data

\* 'data' of the request: the next byte the client has sent.
ServerData(p) ==
    LET o == op[p]
        buf == test.server[o.key].data
    IN
    /\ test.pc = "listening"
    /\ test.receiving
    /\ Len(buf) < o.sent
    /\ test' = [test EXCEPT !.server[o.key].data =
                    Concat(buf, <<test.upload[Len(buf) + 1]>>)]
    /\ UNCHANGED <<bootstrap, current, immutable, op, calls, rotations, probe,
                   batch, gen, legacy>>

\* 'end' of the request, after its last byte: the server answers 200.
ServerEnd(p) ==
    LET o == op[p] IN
    /\ test.pc = "listening"
    /\ test.receiving
    /\ o.req = "pending"
    /\ ~o.aborted
    /\ o.stream = "ended"
    /\ Len(test.server[o.key].data) = o.sent
    /\ test' = [test EXCEPT !.receiving = FALSE, !.reply = Reply(200, <<>>),
                            !.log = Append(@, LogEntry(o, 200))]
    /\ UNCHANGED <<bootstrap, current, immutable, op, calls, rotations, probe,
                   batch, gen, legacy>>

\* The server's answer reaches the client.
ClientResponse(p) ==
    /\ test.pc = "listening"
    /\ test.handled = calls
    /\ test.reply.status # 0
    /\ Response(p, test.reply.status, FALSE)

TestVerbs == {"put", "get", "delete"}

NextTest ==
    \/ \E verb \in TestVerbs : TestCall(Caller, verb)
    \/ \E reusedSocket \in BOOLEAN : Socket(Caller, reusedSocket)
    \/ Connect(Caller)
    \/ SendByte(Caller)
    \/ Finished(Caller)
    \/ ServerHandle(Caller)
    \/ ServerData(Caller)
    \/ ServerEnd(Caller)
    \/ ClientResponse(Caller)
    \/ Close(Caller)

SpecTest == InitTest /\ [][NextTest]_vars

\* ------------------------------------------- the legacy hash-checking put
\* `stream.contentHash` left out, `stream.calculatedHash` not yet set.
Undefined == -1

\* crypto.createHash(hashAlgo), hash.write(chunk), hash.read(): a digest
\* that depends on every byte and on their order.
CreateHash == 7

HashUpdate(h, b) == ((h * 31) + b) % 251

RECURSIVE Digest(_)
Digest(bytes) ==
    IF bytes = <<>> THEN CreateHash
    ELSE HashUpdate(Digest(SubSeq(bytes, 1, Len(bytes) - 1)),
                    bytes[Len(bytes)])

Uploads == UNION {[1..n -> RandBytes] : n \in 0..MaxSize}

ContentHashes == {Undefined} \cup {Digest(u) : u \in Uploads}

LegacyStatuses == {200, 404}

\* A legacy client with one endpoint, as the legacy tests build it.
InitLegacy ==
    /\ bootstrap = <<E1>>
    /\ current = E1
    /\ immutable = FALSE
    /\ op = [p \in Clients |-> IdleOp]
    /\ calls = 0
    /\ rotations = 0
    /\ probe = NoProbe
    /\ batch = NoBatch
    /\ gen = NoGen
    /\ test = NoTest
    /\ legacy = [pc |-> "idle"]

LegacyDeliver(l, err, key) ==
    [l EXCEPT !.pc = "done", !.cbs = Append(@, [err |-> err, key |-> key])]

\* The callback put hands to _failover: compares the hashes, deletes the
\* key on a mismatch.
LegacyPutCallback(l, err, key) ==
    IF err # "none" THEN LegacyDeliver(l, err, "none")
    ELSE IF l.contentHash # Undefined /\ l.calculatedHash # l.contentHash
    THEN LegacyDeliver([l EXCEPT !.del = "pending",
                                 !.delKeys = Append(@, key)],
                       "InvalidDigest", "none")
    ELSE LegacyDeliver(l, "none", key)

\* The callback of _failover on one endpoint: an unexpected error uses up
\* the retry budget at once.
LegacyFailoverCallback(l, err, key) ==
    IF err = "unexpected" /\ ~GiveUp(0, Len(bootstrap)) THEN l
    ELSE LegacyPutCallback(l, err, key)

\* put(stream, params, reqUids, callback) down to stream.pipe(request).
LegacyPut(upload, contentHash, key) ==
    /\ legacy.pc = "idle"
    /\ legacy' = [pc |-> "running", upload |-> upload,
                  contentHash |-> contentHash, key |-> key,
                  sent |-> 0, hash |-> CreateHash, streamEnded |-> FALSE,
                  passEnded |-> FALSE, calculatedHash |-> Undefined,
                  req |-> "pending", status |-> 0, cbs |-> <<>>,
                  del |-> "none", delKeys |-> <<>>, delOutcome |-> 0]
    /\ UNCHANGED <<bootstrap, current, immutable, op, calls, rotations, probe,
                   batch, gen, test>>

\* 'data' of the stream: the chunk goes to the hash and to the request.
LegacyData ==
    /\ legacy.pc \in {"running", "done"}
    /\ ~legacy.streamEnded
    /\ legacy.sent < Len(legacy.upload)
    /\ legacy' = [legacy EXCEPT
                     !.sent = @ + 1,
                     !.hash = HashUpdate(@, legacy.upload[legacy.sent + 1])]
    /\ UNCHANGED <<bootstrap, current, immutable, op, calls, rotations, probe,
                   batch, gen, test>>

\* 'end' of the stream: both pipes end their destination.
LegacyStreamEnd ==
    /\ legacy.pc \in {"running", "done"}
    /\ ~legacy.streamEnded
    /\ legacy.sent = Len(legacy.upload)
    /\ legacy' = [legacy EXCEPT !.streamEnded = TRUE]
    /\ UNCHANGED <<bootstrap, current, immutable, op, calls, rotations, probe,
                   batch, gen, test>>

\* 'end' of the pass-through: `stream.calculatedHash = hash.read()`.
LegacyPassEnd ==
    /\ legacy.pc \in {"running", "done"}
    /\ legacy.streamEnded
    /\ ~legacy.passEnded
    /\ legacy' = [legacy EXCEPT !.passEnded = TRUE,
                                !.calculatedHash = legacy.hash]
    /\ UNCHANGED <<bootstrap, current, immutable, op, calls, rotations, probe,
                   batch, gen, test>>

\* The response of the endpoint becomes readable.  The request is on the
\* wire from its first chunk on; an 'end' of the pass-through that is due
\* runs before any I/O callback.
LegacyResponse(status) ==
    /\ legacy.pc = "running"
    /\ legacy.req = "pending"
    /\ legacy.sent > 0 \/ legacy.streamEnded
    /\ legacy.streamEnded => legacy.passEnded
    /\ LET l == [legacy EXCEPT !.req = "responded", !.status = status]
       IN  legacy' = IF status # 200
                     THEN LegacyFailoverCallback(l, "expected", "none")
                     ELSE LegacyFailoverCallback(l, "none", l.key)
    /\ UNCHANGED <<bootstrap, current, immutable, op, calls, rotations, probe,
                   batch, gen, test>>

\* 'error' of the request: `.on('error', callback)`, before or after the
\* response.
LegacyError ==
    /\ legacy.pc \in {"running", "done"}
    /\ legacy.req \in {"pending", "responded"}
    /\ legacy.streamEnded => legacy.passEnded
    /\ legacy' = LegacyFailoverCallback([legacy EXCEPT !.req = "failed"],
                                        "unexpected", "none")
    /\ UNCHANGED <<bootstrap, current, immutable, op, calls, rotations, probe,
                   batch, gen, test>>

\* The delete of the mismatching key ends, `() => {}` is its callback.
LegacyDeleteEnd(outcome) ==
    /\ legacy.pc = "done"
    /\ legacy.del = "pending"
    /\ legacy' = [legacy EXCEPT !.del = "done", !.delOutcome = outcome]
    /\ UNCHANGED <<bootstrap, current, immutable, op, calls, rotations, probe,
                   batch, gen, test>>

NextLegacy ==
    \/ \E upload \in Uploads, contentHash \in ContentHashes, key \in Keys :
          LegacyPut(upload, contentHash, key)
    \/ LegacyData
    \/ LegacyStreamEnd
    \/ LegacyPassEnd
    \/ \E status \in LegacyStatuses : LegacyResponse(status)
    \/ LegacyError
    \/ \E outcome \in LegacyStatuses \cup {SocketErrCode} :
          LegacyDeleteEnd(outcome)

SpecLegacy == InitLegacy /\ [][NextLegacy]_vars

\* ------------------------------------------- one endpoint that answers
\* The failover set-up of the unit test: a server listens on one endpoint
\* of the pool and answers, nothing listens on the others.
Good == E2

GoodPools ==
    {s \in UNION {[1..n -> Endpoints] : n \in 1..MaxPool} :
        \E i \in 1..Len(s) : s[i] = Good}

InitGood ==
    /\ bootstrap \in GoodPools
    /\ current = bootstrap[1]
    /\ immutable = FALSE
    /\ op = [p \in Clients |-> IdleOp]
    /\ calls = 0
    /\ rotations = 0
    /\ probe = NoProbe
    /\ batch = NoBatch
    /\ gen = NoGen
    /\ test = NoTest
    /\ legacy = NoLegacy

\* The server answers the request sent to it.
GoodResponse(p) ==
    /\ op[p].started = Good
    /\ Response(p, 200, FALSE)

\* The connection to an endpoint nobody listens on is refused.
GoodError(p) ==
    /\ op[p].started # Good
    /\ op[p].req = "pending"
    /\ Error(p)

NextGood ==
    \/ \E p \in Clients, verb \in ConcVerbs : Call(p, verb, UserKey)
    \/ \E p \in Clients : GoodResponse(p)
    \/ \E p \in Clients : GoodError(p)
    \/ \E p \in Clients : Close(p)

\* Every request sent gets its response or its error.
SpecGood ==
    /\ InitGood
    /\ [][NextGood]_vars
    /\ \A p \in Clients : WF_vars(GoodResponse(p)) /\ WF_vars(GoodError(p))

\* ------------------------------------------------------- steps and cases
\* The step in which the pending request of p gets its response.
RespStep(p) ==
    /\ op[p].req = "pending"
    /\ op[p].status = 0
    /\ op'[p].status # 0

\* The step in which the pending request of p fails with an 'error' event:
\* the operation either ends on it or makes one more attempt.
ErrorStep(p) ==
    /\ op[p].req = "pending"
    /\ op'[p].status = op[p].status
    /\ \/ op'[p].req = "failed"
       \/ op'[p].counter > op[p].counter

Retried(p) ==
    /\ op'[p].pc = "running"
    /\ op'[p].req = "pending"
    /\ op'[p].counter = op[p].counter + 1

PoolUnchanged == bootstrap' = bootstrap /\ current' = current

KeyedVerbs == Verbs \ {"healthcheck"}

\* ------------------------------------------------------------------ C1
C1_CallbackCount ==
    \A p \in Clients :
        /\ op[p].cbCount <= 1
        /\ op[p].pc = "done" <=> op[p].cbCount = 1
        /\ op[p].req \in {"responded", "failed", "closed"} =>
              op[p].cbCount = 1

C1_LateErrorStep ==
    \A p \in Clients :
        (op[p].req = "responded" /\ op'[p].req = "failed") =>
            /\ op'[p] = [op[p] EXCEPT !.req = "failed", !.late = @ + 1]
            /\ PoolUnchanged

\* C1: for every public operation and every sequence of response, error and
\* stream-abort events the caller's callback has been invoked exactly once
\* when the request has ended and never more than once; an error event that
\* arrives after the response only bumps the log and causes neither a second
\* callback nor a retry.
C1_ExactlyOnce == [](C1_CallbackCount) /\ [][C1_LateErrorStep]_vars

C1_Witness ==
    \E p \in Clients :
        /\ op[p].pc = "done"
        /\ op[p].late = 1
        /\ op[p].cbCount = 1

\* ------------------------------------------------------------------ C2
\* C2: when two concurrent operations snapshot the same head E and both
\* fail retryably, the first failure rotates the pool once, to the
\* successor of E, and the second one finds the pool already shifted: it
\* leaves the pool alone and retries on that successor.
C2_RotateOnce ==
    [][\A q \in Clients :
          (ErrorStep(q) /\ Retried(q)) =>
             /\ rotations = op[q].snapRot =>
                   /\ bootstrap' = Append(Tail(bootstrap), Head(bootstrap))
                   /\ current' = bootstrap'[1]
                   /\ op'[q].started = current'
             /\ rotations = op[q].snapRot + 1 =>
                   /\ PoolUnchanged
                   /\ bootstrap[Len(bootstrap)] = op[q].started
                   /\ op'[q].started = current]_vars

\* ------------------------------------------------------------------ C3
\* C3: calling _shiftCurrentBootstrapToEnd twice in a row with the same
\* endpoint leaves the pool order and the head as the first call left them.
C3_Idempotent ==
    probe.calls = 2 =>
        (bootstrap = probe.first.bootstrap /\ current = probe.first.current)

\* ------------------------------------------------------------------ C4
\* C4: a streaming put whose attempt fails with a transport error after
\* streaming has started ends on that error with retryable false; the pool
\* is not rotated and no other endpoint is contacted.
C4_NoFailoverMidStream ==
    [][\A p \in Clients :
          (ErrorStep(p) /\ HasStream(op[p].verb) /\ op[p].streamingStarted) =>
             /\ op'[p].pc = "done"
             /\ op'[p].cbCount = 1
             /\ op'[p].cbErr.isErr
             /\ ~op'[p].cbErr.isExpected
             /\ op'[p].cbErr.retryable = "false"
             /\ op'[p].attempts = op[p].attempts
             /\ PoolUnchanged]_vars

C4_Witness ==
    \E p \in Clients :
        /\ op[p].verb = "put"
        /\ op[p].pc = "done"
        /\ op[p].streamingStarted
        /\ ~op[p].voluntaryAbort
        /\ op[p].sent = 1
        /\ op[p].cbErr.isErr
        /\ op[p].cbErr.retryable = "false"
        /\ Len(bootstrap) >= 2
        /\ bootstrap[2] # bootstrap[1]
        /\ Len(op[p].attempts) = 1

\* ------------------------------------------------------------------ C5
C5_RetryableOutcome(p) ==
    \/ Retried(p)
    \/ /\ op'[p].pc = "done"
       /\ op'[p].cbErr.retryable = "true"
       /\ op'[p].counter >= Len(bootstrap)

\* C5 as stated: a transport failure of a streaming put attempt before any
\* body byte was sent is retryable and fails over while the budget lasts,
\* on a fresh socket and on a reused one.
C5_Original ==
    [][\A p \in Clients :
          (/\ ErrorStep(p)
           /\ HasStream(op[p].verb)
           /\ op[p].sent = 0
           /\ ~op[p].voluntaryAbort) => C5_RetryableOutcome(p)]_vars

\* C5 amended: a transport failure of a streaming put attempt before
\* streaming was started is retryable and fails over while the budget
\* lasts; once streaming was started (at the 'socket' event of a reused
\* socket, at 'connect' of a fresh one) the failure is not retryable, also
\* when no body byte has been sent yet.
C5_BeforeStreamingStarted ==
    [][\A p \in Clients :
          (ErrorStep(p) /\ HasStream(op[p].verb)) =>
             IF ~op[p].streamingStarted
             THEN C5_RetryableOutcome(p)
             ELSE /\ op'[p].pc = "done"
                  /\ op'[p].cbErr.retryable = "false"]_vars

C5_Witness ==
    \E p \in Clients :
        /\ op[p].verb = "put"
        /\ op[p].pc = "running"
        /\ op[p].counter = 1
        /\ Len(op[p].attempts) = 2
        /\ op[p].sent = 0

\* ------------------------------------------------------------------ C6
\* C6: in a streaming put nothing is piped into the request, and no byte of
\* the stream is consumed, before the request has a socket that is reused
\* or has emitted 'connect'.
C6_StreamingGate ==
    \A p \in Clients :
        (op[p].streamingStarted \/ op[p].pipes > 0 \/ op[p].sent > 0) =>
            op[p].sock \in {"reused", "connected"}

C6_Witness ==
    \E p \in Clients :
        /\ op[p].verb = "put"
        /\ op[p].req = "pending"
        /\ op[p].sock = "connecting"
        /\ ~op[p].streamingStarted
        /\ op[p].sent = 0

\* ------------------------------------------------------------------ C7
\* C7: a response with a non-success status ends the operation at once with
\* an expected error carrying that status: no further attempt, no rotation,
\* whatever the retryable flag and however many endpoints are untried.
C7_ExpectedNotRetried ==
    [][\A p \in Clients :
          (/\ RespStep(p)
           /\ op[p].verb \in KeyedVerbs
           /\ ~IsSuccessStatus(Method(op[p].verb), op'[p].status)) =>
             /\ op'[p].pc = "done"
             /\ op'[p].req = "responded"
             /\ op'[p].cbCount = 1
             /\ op'[p].cbErr.isExpected
             /\ op'[p].cbErr.code = op'[p].status
             /\ op'[p].attempts = op[p].attempts
             /\ op'[p].counter = op[p].counter
             /\ PoolUnchanged]_vars

C7_Witness ==
    \E p \in Clients :
        /\ op[p].pc = "done"
        /\ op[p].verb \in KeyedVerbs
        /\ op[p].cbErr.isExpected
        /\ op[p].cbErr.retryable = "true"
        /\ op[p].counter + 1 < Len(bootstrap)
        /\ \E i \in 1..Len(bootstrap) :
              \A j \in 1..Len(op[p].attempts) : op[p].attempts[j] # bootstrap[i]

\* ------------------------------------------------------------------ C8
\* C8 as stated: every expected error carries retryable false, for the
\* streaming put and the bodyless verbs alike.
C8_Original ==
    \A p \in Clients :
        (/\ op[p].pc = "done"
         /\ op[p].verb \in KeyedVerbs
         /\ op[p].cbErr.isExpected) => op[p].cbErr.retryable = "false"

\* C8 amended: an expected error carries retryable false on a streaming put
\* and retryable true on the bodyless verbs.
C8_RetryablePerVerb ==
    \A p \in Clients :
        (/\ op[p].pc = "done"
         /\ op[p].verb \in KeyedVerbs
         /\ op[p].cbErr.isExpected) =>
            op[p].cbErr.retryable =
                (IF op[p].verb = "put" THEN "false" ELSE "true")

C8_Witness ==
    \E p \in Clients :
        /\ op[p].pc = "done"
        /\ op[p].verb = "put"
        /\ op[p].cbErr.isExpected
        /\ op[p].cbErr.code = 404
        /\ op[p].cbErr.retryable = "false"

\* ------------------------------------------------------------------ C9
\* C9: a get answered 404 (the key is not stored) delivers an error with
\* isExpected true, code 404 and retryable true and no response object,
\* also after failing over from an unreachable first endpoint.
C9_Get404 ==
    \A p \in Clients :
        (op[p].verb = "get" /\ op[p].status = 404) =>
            /\ op[p].pc = "done"
            /\ op[p].cbCount = 1
            /\ op[p].cbErr = [isErr |-> TRUE, isExpected |-> TRUE,
                              code |-> 404, retryable |-> "true"]
            /\ op[p].cbRet = NoRet

C9_Witness ==
    \E p \in Clients :
        /\ op[p].verb = "get"
        /\ op[p].status = 404
        /\ op[p].pc = "done"
        /\ Len(op[p].attempts) = 2
        /\ op[p].attempts[1] # op[p].attempts[2]

\* ----------------------------------------------------------------- C10
BodylessVerbs == {"putEmptyObject", "get", "getHEAD", "delete"}

\* C10 as stated: a 5xx answer to a bodyless verb is an unexpected,
\* retryable outcome, delivered only once the retry budget is used up.
C10_Original ==
    \A p \in Clients :
        (/\ op[p].verb \in BodylessVerbs
         /\ op[p].status = 500
         /\ op[p].pc = "done") =>
            /\ ~op[p].cbErr.isExpected
            /\ op[p].cbErr.retryable = "true"
            /\ op[p].counter >= Len(bootstrap)

\* C10 amended: a 5xx answer is an expected error like any other
\* non-success status: on a bodyless verb it is delivered at once with
\* isExpected true and the status as code, the pool is not rotated and no
\* further attempt is made.
C10_5xxDelivered ==
    [][\A p \in Clients :
          (/\ RespStep(p)
           /\ op[p].verb \in BodylessVerbs
           /\ op'[p].status = 500) =>
             /\ op'[p].pc = "done"
             /\ op'[p].cbCount = 1
             /\ op'[p].cbErr = [isErr |-> TRUE, isExpected |-> TRUE,
                                code |-> 500, retryable |-> "true"]
             /\ op'[p].attempts = op[p].attempts
             /\ PoolUnchanged]_vars

C10_Witness ==
    \E p \in Clients :
        /\ op[p].verb \in BodylessVerbs
        /\ op[p].status = 500
        /\ op[p].pc = "done"
        /\ op[p].counter = 0
        /\ Len(bootstrap) >= 2
        /\ bootstrap[2] # bootstrap[1]

\* ----------------------------------------------------------------- C11
\* C11: a 423 response is a success exactly when the method is DELETE: a
\* delete answered 423 completes with no error, no further attempt and no
\* rotation, and a 423 answer to any other verb ends the call with an
\* expected error whose code is 423.
C11_LockedIsDoneOnDelete ==
    [][\A p \in Clients :
          (RespStep(p) /\ op'[p].status = 423) =>
             /\ op'[p].pc = "done"
             /\ op'[p].cbCount = 1
             /\ op'[p].attempts = op[p].attempts
             /\ PoolUnchanged
             /\ IF op[p].verb = "delete"
                THEN /\ op'[p].cbErr = NoError
                     /\ op'[p].cbRet = ResponseRet(423, FALSE)
                ELSE /\ op'[p].cbErr.isErr
                     /\ op'[p].cbErr.isExpected
                     /\ op'[p].cbErr.code = 423
                     /\ op'[p].cbRet = NoRet]_vars

C11_Witness ==
    \E p \in Clients :
        /\ op[p].verb = "delete"
        /\ op[p].status = 423
        /\ op[p].pc = "done"
        /\ ~op[p].cbErr.isErr
        /\ Len(op[p].attempts) = 2

\* ----------------------------------------------------------------- C12
\* An attempt whose transport failure _handleRequest marks retryable.
RetryableFailure(p) ==
    /\ ErrorStep(p)
    /\ op[p].verb \in KeyedVerbs
    /\ HasStream(op[p].verb) => ~op[p].streamingStarted

GaveUp(p) ==
    /\ op'[p].pc = "done"
    /\ op'[p].cbCount = 1
    /\ op'[p].cbErr.isErr
    /\ ~op'[p].cbErr.isExpected
    /\ op'[p].cbErr.retryable = "true"
    /\ op'[p].attempts = op[p].attempts
    /\ PoolUnchanged

RotatedAndRetried(p) ==
    /\ Retried(p)
    /\ bootstrap' = Append(Tail(bootstrap), Head(bootstrap))
    /\ current' = bootstrap'[1]
    /\ op'[p].attempts = Append(op[p].attempts, current')

\* C12 as stated: after a retryable unexpected error the controller gives
\* up only when the retry count is already >= the pool length and
\* otherwise rotates, increments the count and retries, so that N
\* endpoints allow N retries after the first attempt.
C12_Original ==
    [][\A p \in Clients :
          RetryableFailure(p) =>
             IF op[p].counter >= Len(bootstrap) THEN GaveUp(p)
             ELSE RotatedAndRetried(p)]_vars

\* C12 amended: after a retryable unexpected error the controller
\* increments the retry count first and gives up when the incremented count
\* is >= the pool length; otherwise it rotates past the endpoint it started
\* on and runs the pipeline again.  An operation on N endpoints makes at
\* most N attempts: the first one and N - 1 retries.
C12_GiveUpOnIncrementedCount ==
    /\ [](\A p \in Clients :
            op[p].verb \in KeyedVerbs =>
               /\ Len(op[p].attempts) <= Len(bootstrap)
               /\ op[p].pc = "running" =>
                     op[p].counter = Len(op[p].attempts) - 1)
    /\ [][\A p \in Clients :
            RetryableFailure(p) =>
               IF op[p].counter + 1 >= Len(bootstrap)
               THEN GaveUp(p) /\ op'[p].counter = op[p].counter + 1
               ELSE RotatedAndRetried(p)]_vars

C12_Witness ==
    \E p \in Clients :
        /\ op[p].pc = "done"
        /\ op[p].cbErr.isErr
        /\ ~op[p].cbErr.isExpected
        /\ op[p].cbErr.retryable = "true"
        /\ Len(bootstrap) = 3
        /\ Len(op[p].attempts) = 3
        /\ op[p].counter = 3

\* ----------------------------------------------------------------- C13
Distinct(bs) ==
    \A i, j \in 1..Len(bs) : bs[i] = bs[j] => i = j

Exhausted(p) ==
    /\ op[p].pc = "done"
    /\ op[p].cbErr.isErr
    /\ ~op[p].cbErr.isExpected
    /\ op[p].cbErr.retryable = "true"
    /\ op[p].counter >= Len(bootstrap)

\* C13: on a pool of distinct endpoints, an operation that delivers an
\* error because its retry budget is exhausted has sent an attempt to every
\* endpoint of the pool, whatever other operations did to the pool
\* meanwhile.
C13_ExhaustedTriedAll ==
    \A p \in Clients :
        (Exhausted(p) /\ Distinct(bootstrap)) =>
            \A i \in 1..Len(bootstrap) :
                \E j \in 1..Len(op[p].attempts) :
                    op[p].attempts[j] = bootstrap[i]

\* ----------------------------------------------------------------- C14
SucceededAfterFailover(p) ==
    /\ op[p].pc = "done"
    /\ ~op[p].cbErr.isErr
    /\ Len(op[p].attempts) >= 2

Last(s) == s[Len(s)]

\* C14: when an operation succeeds after failing over and no other
\* operation runs, the pool head after the callback is the endpoint that
\* served the successful attempt, and the next operation starts on it.
C14_HeadServedLast ==
    /\ [](SucceededAfterFailover(Caller) =>
             /\ current = Last(op[Caller].attempts)
             /\ bootstrap[1] = current)
    /\ [][(SucceededAfterFailover(Caller) /\ calls' = calls + 1) =>
             /\ op'[Caller].started = Last(op[Caller].attempts)
             /\ op'[Caller].attempts = <<Last(op[Caller].attempts)>>
             /\ PoolUnchanged]_vars

C14_Witness ==
    /\ op[Caller].verb = "put"
    /\ SucceededAfterFailover(Caller)
    /\ op[Caller].cbRet.kind = "key"
    /\ op[Caller].attempts = <<E1, E2>>
    /\ current = E2
    /\ calls < MaxCalls

\* ----------------------------------------------------------------- C15
\* The step in which finished reports the destroyed stream of a put whose
\* streaming has started and whose response has not arrived.
DestroyedMidUpload(p) ==
    /\ op[p].stream = "destroyed"
    /\ op[p].streamingStarted
    /\ op[p].req = "pending"
    /\ ~op[p].finishedFired
    /\ op'[p].finishedFired

\* C15: when the caller destroys the stream of a put after streaming has
\* started and before a response arrived, the request is aborted; the only
\* thing the aborted request does next is fail, and the callback then gets
\* an error with retryable false, once, without rotation or a new attempt.
C15_VoluntaryAbort ==
    /\ [](\A p \in Clients : op[p].voluntaryAbort => op[p].cbCount <= 1)
    /\ [][\A p \in Clients :
            /\ DestroyedMidUpload(p) =>
                  /\ op'[p].aborted
                  /\ op'[p].voluntaryAbort
                  /\ op'[p].cbCount = 0
            /\ (op[p].aborted /\ op[p].req = "pending"
                   /\ op'[p] # op[p]) =>
                  /\ op'[p].req = "failed"
                  /\ op'[p].pc = "done"
                  /\ op'[p].cbCount = 1
                  /\ op'[p].cbErr.isErr
                  /\ op'[p].cbErr.retryable = "false"
                  /\ op'[p].cbRet = NoRet
                  /\ op'[p].attempts = op[p].attempts
                  /\ PoolUnchanged]_vars

C15_Witness ==
    \E p \in Clients :
        /\ op[p].verb = "put"
        /\ op[p].voluntaryAbort
        /\ op[p].stream = "destroyed"
        /\ op[p].pc = "done"
        /\ op[p].req = "failed"
        /\ op[p].cbCount = 1
        /\ op[p].cbErr.retryable = "false"
        /\ op[p].attempts = <<E1>>
        /\ Len(bootstrap) >= 2
        /\ bootstrap[2] # E1

\* ----------------------------------------------------------------- C16
InFlight == {i \in 1..Len(batch.sub) : batch.sub[i].pc = "running"}

Failed == {i \in 1..Len(batch.sub) : batch.sub[i].cbErr.isErr}

AllCompleted ==
    /\ Len(batch.sub) = Len(batch.batches)
    /\ InFlight = {}

\* The batches are consecutive runs of the list, at most BatchSize long.
InOrderPartition(bs, n) ==
    /\ Len(bs) * BatchSize >= n
    /\ (Len(bs) - 1) * BatchSize < n \/ (n = 0 /\ Len(bs) = 0)
    /\ \A i \in 1..Len(bs) :
          /\ bs[i].lo = (IF i = 1 THEN 1 ELSE bs[i - 1].hi + 1)
          /\ bs[i].lo <= bs[i].hi
          /\ bs[i].hi - bs[i].lo + 1 <= BatchSize
    /\ Len(bs) > 0 => bs[Len(bs)].hi = n

\* C16: batchDelete of n keys splits the list, in order, into ceil(n/1000)
\* batches of at most 1000 keys and sends each as one POST to
\* '.batch_delete'; at most 5 sub-requests are in flight at any moment;
\* when no sub-request fails every batch is dispatched and the aggregate
\* callback fires exactly once, with a null error, when all have completed.
C16_BatchDelete ==
    batch.pc = "called" =>
        /\ InOrderPartition(batch.batches, batch.n)
        /\ Len(batch.sub) <= Len(batch.batches)
        /\ Cardinality(InFlight) <= Limit
        /\ \A i \in InFlight :
              /\ Method(batch.sub[i].verb) = "POST"
              /\ batch.sub[i].key = ".batch_delete"
        /\ batch.cbCount <= 1
        /\ Failed = {} =>
              /\ batch.cbCount = 1 <=> AllCompleted
              /\ batch.cbCount = 1 => batch.cbErr = NoError

C16_Witness ==
    /\ batch.n = 5 * BatchSize + 1
    /\ Len(batch.batches) = 6
    /\ AllCompleted
    /\ Failed = {}
    /\ batch.cbCount = 1
    /\ batch.cbErr = NoError

\* ----------------------------------------------------------------- C17
\* C17 as stated: the aggregate callback fires only when every dispatched
\* sub-batch has completed, never while a sub-request is in flight, and
\* reports the first error when a sub-batch failed.
C17_Original ==
    batch.cbCount >= 1 =>
        /\ InFlight = {}
        /\ Failed # {} => \E i \in Failed : batch.cbErr = batch.sub[i].cbErr

\* The step in which sub-request i delivers an error.
SubFails(i) ==
    /\ i \in InFlight
    /\ batch'.sub[i].pc = "done"
    /\ batch'.sub[i].cbErr.isErr

\* C17 amended: the aggregate callback fires once.  While no sub-batch has
\* failed it fires only after every batch was dispatched and has completed.
\* The first sub-batch that fails makes it fire at once with that error,
\* also while other sub-requests are in flight; after that no further batch
\* is dispatched and later outcomes do not reach the caller.
C17_FirstErrorAtOnce ==
    /\ [](/\ batch.cbCount <= 1
          /\ (batch.cbCount = 1 /\ ~batch.cbErr.isErr) =>
                (AllCompleted /\ Failed = {})
          /\ Failed # {} =>
                /\ batch.cbCount = 1
                /\ \E i \in Failed : batch.cbErr = batch.sub[i].cbErr)
    /\ [][/\ \A i \in 1..Len(batch.sub) :
                (SubFails(i) /\ batch.cbCount = 0) =>
                   /\ batch'.cbCount = 1
                   /\ batch'.cbErr = batch'.sub[i].cbErr
                   /\ Len(batch'.sub) = Len(batch.sub)
          /\ batch.cbCount = 1 =>
                /\ batch'.cbCount = 1
                /\ batch'.cbErr = batch.cbErr
                /\ Len(batch'.sub) = Len(batch.sub)]_vars

C17_Witness ==
    /\ batch.cbCount = 1
    /\ batch.cbErr.isErr
    /\ Cardinality(InFlight) = Limit - 1
    /\ Cardinality(Failed) = 1
    /\ Len(batch.sub) < Len(batch.batches)

\* ----------------------------------------------------------------- C18
\* C18: a client built with immutable: true sets X-Scal-Replica-Policy:
\* immutable on every request it sends, whatever the verb and also on a
\* retry, and a client built without it sets the header on none.
C18_PolicyOnEveryRequest ==
    /\ \A p \in Clients :
          op[p].req = "pending" =>
             (op[p].policy = "immutable" <=> immutable)
    /\ \A i \in InFlight :
          batch.sub[i].policy = "immutable" <=> immutable

\* ----------------------------------------------------------------- C19
ValidKey(k) == KeyType(k) = "string" /\ KeyLength(k) = 40

\* C19: put with a caller's key, putEmptyObject, get, getHEAD and delete
\* reject a key that is not a string of exactly 40 characters before any
\* request is sent, and batchDelete rejects the whole list, before any
\* sub-request, when an entry is not a string of exactly 40 characters.
C19_KeysValidated ==
    /\ \A p \in Clients :
          (/\ op[p].verb \in KeyedVerbs
           /\ op[p].keyScheme # "none"
           /\ ~ValidKey(op[p].keyScheme)) =>
             /\ op[p].pc = "thrown"
             /\ op[p].attempts = <<>>
    /\ (batch.pc # "idle" /\ ~ValidKey(batch.odd)) =>
          /\ batch.pc = "thrown"
          /\ batch.sub = <<>>

\* ----------------------------------------------------------------- C20
UpperHexDigits == <<"0", "1", "2", "3", "4", "5", "6", "7", "8", "9",
                    "A", "B", "C", "D", "E", "F">>

HexValue(c) == CHOOSE v \in 0..15 : UpperHexDigits[v + 1] = c

\* Byte i, counted from 0, of the key the characters spell.
ByteAt(key, i) == 16 * HexValue(key[2 * i + 1]) + HexValue(key[2 * i + 2])

\* C20: for all routing parameters and every draw of the random bytes the
\* generated key is 20 bytes spelt as 40 upper-case hex characters; byte 15
\* is the sid 0x59, byte 19 the cos byte, bytes 12..14 are bytes 1..3 of
\* md5(bucketName) and byte 8 is byte 0 of md5(namespace).
C20_KeyLayout ==
    gen.pc = "returned" =>
        /\ Len(gen.key) = 40
        /\ \A i \in 1..Len(gen.key) :
              \E v \in 1..16 : gen.key[i] = UpperHexDigits[v]
        /\ ByteAt(gen.key, 15) = Sid
        /\ ByteAt(gen.key, 19) = Cos
        /\ \A j \in 1..3 :
              ByteAt(gen.key, 11 + j) = Md5(gen.params.bucketName)[j + 1]
        /\ ByteAt(gen.key, 8) = Md5(gen.params.namespace)[1]

C20_Witness ==
    /\ gen.pc = "returned"
    /\ gen.params = [bucketName |-> "vogosphere", namespace |-> "poem",
                     owner |-> "jeltz"]
    /\ gen.rand[1] = 171
    /\ SubSeq(gen.key, 1, 2) = <<"A", "B">>
    /\ SubSeq(gen.key, 17, 18) = <<"1", "9">>
    /\ SubSeq(gen.key, 25, 32) = <<"D", "3", "A", "D", "F", "D", "5", "9">>
    /\ SubSeq(gen.key, 39, 40) = <<"7", "0">>

\* ----------------------------------------------------------------- C21
\* C21: for fixed routing parameters two calls of the key generator return
\* keys that agree on bytes 8..15 whatever random bytes were drawn; only
\* bytes 0..7 and 16..18 may differ.
C21_RoutingBytesStable ==
    gen.pc = "returned twice" =>
        \A i \in 0..19 :
            (i \notin 0..7 /\ i \notin 16..18) =>
                ByteAt(gen.key, i) = ByteAt(gen.key2, i)

C21_Witness ==
    /\ gen.pc = "returned twice"
    /\ \A i \in 1..RandLen : gen.rand[i] # gen.rand2[i]
    /\ \A i \in (0..7) \cup (16..18) :
          ByteAt(gen.key, i) # ByteAt(gen.key2, i)
    /\ SubSeq(gen.key, 17, 32) = SubSeq(gen.key2, 17, 32)

\* ----------------------------------------------------------------- C22
\* How many times endpoint e is listed in pool bs.
Count(bs, e) == Cardinality({i \in DOMAIN bs : bs[i] = e})

\* C22: the pool is never empty, its length never changes, and every step
\* keeps each endpoint listed as many times as before: the pool holds the
\* configured endpoints as a multiset, rotation only reorders them.
C22_PoolIsPermutation ==
    /\ [](Len(bootstrap) > 0)
    /\ [][/\ Len(bootstrap') = Len(bootstrap)
          /\ \A e \in Endpoints :
                Count(bootstrap', e) = Count(bootstrap, e)]_vars

C22_Witness ==
    /\ rotations > 0
    /\ bootstrap = <<E2, E3, E1>>
    /\ current = E2

\* ----------------------------------------------------------------- C23
\* This step runs the callback of p's operation.
CallsBack(p) == op'[p].cbCount = op[p].cbCount + 1

\* C23 as stated: when the callback of an operation runs, no request of the
\* operation is in flight and no response body is still being transferred,
\* that is, its request has closed or failed.
C23_Original ==
    [][\A p \in Clients :
          CallsBack(p) => op'[p].req \in {"failed", "closed"}]_vars

\* C23: when the callback of get, put, delete or getHEAD runs, the request
\* of the operation has received its response head or has failed, none is
\* awaiting a response and the step starts no other attempt; the response
\* itself may still be open.
C23_CallbackAfterHeadOrError ==
    [][\A p \in Clients :
          CallsBack(p) =>
              /\ op'[p].req \in {"responded", "failed"}
              /\ op'[p].req = "responded" <=> op[p].req = "pending"
                                                /\ op'[p].status # 0
              /\ op'[p].attempts = op[p].attempts
              /\ op'[p].pc = "done"]_vars

C23_Witness ==
    /\ op[Caller].verb = "get"
    /\ op[Caller].cbCount = 1
    /\ ~op[Caller].cbErr.isErr
    /\ op[Caller].req = "responded"

\* ----------------------------------------------------------------- C24
\* The last request the test server answered.
LastLog == test.log[Len(test.log)]

\* The caller's operation has called back without an error.
Succeeded(p) == op[p].pc = "done" /\ ~op[p].cbErr.isErr

KeylessPut(p) ==
    /\ op[p].verb = "put"
    /\ op[p].keyScheme = "none"
    /\ op[p].pc \in {"running", "done"}

\* C25 as stated: the key of a put without a caller-supplied key is
\* generated once, every attempt of the put uses the key of the first.
C25_Original ==
    \A p \in Clients : KeylessPut(p) => op[p].key = op[p].firstKey

\* C25: the key is chosen by the request pipeline on every attempt: a
\* caller-supplied key is used by all attempts, a put without one
\* generates a key per attempt, and a successful put calls back with the
\* key of the attempt that was answered.
C25_KeyPerAttempt ==
    \A p \in Clients :
        LET o == op[p] IN
        /\ (o.verb \in KeyedVerbs /\ o.keyScheme # "none"
               /\ o.pc \in {"running", "done"}) =>
              o.key = o.keyScheme /\ o.firstKey = o.keyScheme
        /\ KeylessPut(p) => o.key \in Keys /\ o.firstKey \in Keys
        /\ (o.verb = "put" /\ Succeeded(p)) => o.cbRet = KeyRet(o.key)

C25_Witness ==
    /\ KeylessPut(Caller)
    /\ Succeeded(Caller)
    /\ Len(op[Caller].attempts) = 2
    /\ op[Caller].key # op[Caller].firstKey
    /\ op[Caller].cbRet = KeyRet(op[Caller].key)

\* ----------------------------------------------------------------- C26
\* C26: a putEmptyObject that succeeds calls back with the key, i.e. the
\* key string the caller supplied, as second argument, as put does.
C26_EmptyPutDeliversKey ==
    \A p \in Clients :
        (op[p].verb = "putEmptyObject" /\ Succeeded(p)) =>
            op[p].cbRet = KeyRet(op[p].keyScheme)

\* ----------------------------------------------------------------- C27
\* C27: healthcheck sends exactly one GET for `.conf` to the head of the
\* pool and calls back with the response object on 200; whatever the
\* outcome it is not retried and leaves the pool order and head as they
\* were.
C27_HealthcheckOnce ==
    /\ [](\A p \in Clients :
            (op[p].verb = "healthcheck" /\ op[p].pc \in {"running", "done"}) =>
                /\ op[p].attempts = <<current>>
                /\ op[p].counter = 0
                /\ op[p].key = ".conf"
                /\ Method(op[p].verb) = "GET"
                /\ (op[p].pc = "done" /\ op[p].status = 200) =>
                      /\ op[p].cbErr = NoError
                      /\ op[p].cbRet = ResponseRet(200, FALSE)
                /\ (op[p].pc = "done" /\ op[p].status = 0) =>
                      op[p].cbErr = SocketError)
    /\ [][\A p \in Clients :
            (op[p].verb = "healthcheck" /\ op'[p].verb = "healthcheck") =>
                PoolUnchanged]_vars

C27_Witness ==
    /\ op[Caller].verb = "healthcheck"
    /\ op[Caller].pc = "done"
    /\ op[Caller].cbErr = SocketError
    /\ bootstrap = <<E1, E2, E3>>
    /\ op[Caller].attempts = <<E1>>

\* ----------------------------------------------------------------- C28
\* The pending request of a bodyless operation, o before the step and o2
\* after it, fails at the transport level: the operation ends on an
\* unexpected error or makes one more attempt.
TransportFailure(o, o2) ==
    /\ o.verb \in BodylessVerbs \cup {"batchDelete"}
    /\ o.pc = "running"
    /\ o.req = "pending"
    /\ \/ o2.counter > o.counter
       \/ o2.pc = "done" /\ o2.cbErr.isErr /\ ~o2.cbErr.isExpected

\* The failure is retried on the next endpoint unless the budget is used up.
FailsOver(o, o2) ==
    IF o.counter + 1 >= Len(bootstrap)
    THEN /\ o2.pc = "done"
         /\ o2.cbErr = [SocketError EXCEPT !.retryable = "true"]
         /\ o2.cbRet = NoRet
    ELSE /\ o2.pc = "running"
         /\ o2.req = "pending"
         /\ o2.counter = o.counter + 1
         /\ o2.started = current'

\* C28: for get, getHEAD, delete, putEmptyObject and the sub-requests of
\* batchDelete a transport failure is always retryable: the operation
\* fails over to the next endpoint until an attempt succeeds, is answered
\* with a definite status, or the retry budget is used up.
C28_BodylessFailover ==
    /\ [](\A p \in Clients :
            (op[p].verb \in BodylessVerbs /\ op[p].pc = "done") =>
                \/ ~op[p].cbErr.isErr /\ op[p].status # 0
                \/ op[p].cbErr.isExpected /\ op[p].cbErr.code = op[p].status
                \/ /\ op[p].cbErr.retryable = "true"
                   /\ op[p].counter >= Len(bootstrap)
                   /\ Len(op[p].attempts) = Len(bootstrap))
    /\ [][/\ \A p \in Clients :
               TransportFailure(op[p], op'[p]) => FailsOver(op[p], op'[p])
          /\ \A i \in 1..Len(batch.sub) :
               TransportFailure(batch.sub[i], batch'.sub[i]) =>
                   FailsOver(batch.sub[i], batch'.sub[i])]_vars

C28_Witness ==
    /\ op[Caller].verb = "delete"
    /\ op[Caller].pc = "done"
    /\ op[Caller].attempts = <<E1, E2, E3>>
    /\ op[Caller].status = 200
    /\ ~op[Caller].cbErr.isErr
    /\ bootstrap = <<E3, E1, E2>>

\* ----------------------------------------------------------------- C29
\* The legacy put was answered 200 and has called back.
LegacyAnswered ==
    /\ legacy.pc = "done"
    /\ legacy.status = 200

\* The supplied hash differs from the hash of the streamed bytes.
HashesDiffer ==
    /\ legacy.contentHash # Undefined
    /\ Digest(legacy.upload) # legacy.contentHash

\* The callback is invoked once.
C29_Once == legacy.pc # "idle" => Len(legacy.cbs) <= 1

\* 'InvalidDigest' exactly when the hashes differ, the key otherwise.
C29_Verdict ==
    LegacyAnswered =>
        legacy.cbs[1] = IF HashesDiffer
                        THEN [err |-> "InvalidDigest", key |-> "none"]
                        ELSE [err |-> "none", key |-> legacy.key]

\* On 'InvalidDigest', and only then, one delete of the key just written.
C29_Delete ==
    LegacyAnswered =>
        legacy.delKeys = IF HashesDiffer THEN <<legacy.key>> ELSE <<>>

\* C29: in the legacy hash-checking put, answered 200, the callback
\* receives 'InvalidDigest' if and only if a content hash was supplied and
\* differs from the hash computed over the streamed bytes; then one delete
\* of the just-written key is issued, whose outcome is ignored; otherwise
\* the callback receives the key; in every case the callback is invoked
\* exactly once, whatever the order of the upstream 'end' and the response.
C29_HashCheckedPut == C29_Once /\ C29_Verdict /\ C29_Delete

\* ----------------------------------------------------------------- C30
\* The pending request of p's put, on a reused socket, fails.
ReusedSocketFailure(p) ==
    /\ op[p].verb = "put"
    /\ op[p].sock = "reused"
    /\ ErrorStep(p)

\* C30: a put attempt handed a reused keep-alive socket has started
\* streaming from the 'socket' event on; an error of that attempt, such as
\* the server having closed the idle socket, is delivered with retryable
\* false and the operation does not fail over, whatever endpoints remain.
C30_ReusedSocketNoRetry ==
    /\ [](\A p \in Clients :
            (op[p].verb = "put" /\ op[p].sock = "reused") =>
                op[p].streamingStarted)
    /\ [][\A p \in Clients :
            ReusedSocketFailure(p) =>
                /\ op'[p].pc = "done"
                /\ op'[p].cbCount = 1
                /\ op'[p].cbErr = [SocketError EXCEPT !.retryable = "false"]
                /\ op'[p].attempts = op[p].attempts
                /\ PoolUnchanged]_vars

C30_Witness ==
    /\ op[Caller].verb = "put"
    /\ op[Caller].pc = "done"
    /\ op[Caller].sock = "reused"
    /\ op[Caller].sent = 0
    /\ ~op[Caller].voluntaryAbort
    /\ op[Caller].cbErr = [SocketError EXCEPT !.retryable = "false"]
    /\ op[Caller].attempts = <<E1>>
    /\ bootstrap = <<E1, E2, E3>>

\* ----------------------------------------------------------------- C31
\* C31: an operation makes at most len(pool) attempts; the pool rotates only
\* in the step that starts a retry, once, so an operation rotates it at
\* most len(pool) - 1 times; on a pool of one endpoint the first unexpected
\* error of an operation is delivered to the caller.
C31_AttemptBudget ==
    /\ [](\A p \in Clients :
            op[p].pc \in {"running", "done"} =>
                /\ Len(op[p].attempts) \in 1..Len(bootstrap)
                /\ op[p].pc = "running" =>
                      op[p].counter <= Len(bootstrap) - 1)
    /\ [][rotations' # rotations =>
            /\ rotations' = rotations + 1
            /\ \E p \in Clients :
                  /\ Retried(p)
                  /\ Len(op'[p].attempts) = Len(op[p].attempts) + 1]_vars
    /\ [][\A p \in Clients :
            (Len(bootstrap) = 1 /\ ErrorStep(p)) =>
                /\ op'[p].pc = "done"
                /\ op'[p].cbCount = 1
                /\ op'[p].cbErr.isErr /\ ~op'[p].cbErr.isExpected
                /\ op'[p].attempts = <<E1>>
                /\ rotations' = rotations]_vars

C31_Witness ==
    /\ bootstrap = <<E1>>
    /\ op[Caller].verb = "delete"
    /\ op[Caller].pc = "done"
    /\ op[Caller].cbErr = [SocketError EXCEPT !.retryable = "true"]
    /\ op[Caller].attempts = <<E1>>
    /\ rotations = 0
    /\ calls = 1

\* ----------------------------------------------------------------- C32
\* A retryable transport failure of p with retry budget left.
RetryableWithBudget(p) ==
    /\ RetryableFailure(p)
    /\ op[p].counter + 1 < Len(bootstrap)

\* C32: the pool order and head change only in a step in which an attempt
\* fails with a retryable unexpected error while retry budget remains: an
\* answered attempt, whatever its status, a non-retryable error and the
\* failure that uses up the budget leave them as they are.
C32_RotationFrame ==
    /\ [][~PoolUnchanged => \E p \in Clients : RetryableWithBudget(p)]_vars
    /\ [][\A p \in Clients :
            /\ RespStep(p) => PoolUnchanged
            /\ (ErrorStep(p) /\ ~RetryableWithBudget(p)) =>
                  PoolUnchanged /\ op'[p].pc = "done"]_vars

C32_Witness ==
    /\ op[Caller].verb = "get"
    /\ op[Caller].pc = "done"
    /\ op[Caller].cbErr = [SocketError EXCEPT !.retryable = "true"]
    /\ op[Caller].attempts = <<E1, E2>>
    /\ bootstrap = <<E2, E1>>
    /\ current = E2
    /\ rotations = 1

\* ----------------------------------------------------------------- C33
\* C33: between the steps of the operations the current endpoint is the
\* first element of the bootstrap list, after construction and after the
\* rotations of any number of concurrent operations.
C33_CurrentIsHead == current = bootstrap[1]

C33_Witness ==
    /\ rotations = 2
    /\ \A p \in Clients : Len(op[p].attempts) = 2
    /\ Len(bootstrap) = 3
    /\ current = bootstrap[1]
    /\ current # E1

\* ----------------------------------------------------------------- C34
\* C34: within one put the caller's stream is piped into at most one
\* request: once an attempt has started streaming, every outcome of the
\* operation is terminal and no further attempt is started.
C34_PipedOnce ==
    /\ [](\A p \in Clients : op[p].pipes <= 1)
    /\ [][\A p \in Clients :
            (op[p].pipes > 0 /\ op'[p].pipes > 0) =>
                /\ op'[p].attempts = op[p].attempts
                /\ (RespStep(p) \/ ErrorStep(p)) => op'[p].pc = "done"]_vars

C34_Witness ==
    /\ op[Caller].verb = "put"
    /\ op[Caller].pc = "done"
    /\ op[Caller].attempts = <<E1, E2>>
    /\ op[Caller].pipes = 1
    /\ op[Caller].sent = 1
    /\ op[Caller].cbErr = [SocketError EXCEPT !.retryable = "false"]
    /\ Len(bootstrap) = 3

\* ----------------------------------------------------------------- C35
\* C35: the key a successful put calls back with is the key in the path of
\* the request that received the success response, whether generated or
\* supplied by the caller, also when earlier attempts failed and were
\* retried on other endpoints.
C35_DeliveredKeyIsRequestKey ==
    [][\A p \in Clients :
          (RespStep(p) /\ op[p].verb = "put" /\ ~op'[p].cbErr.isErr) =>
              /\ op'[p].pc = "done"
              /\ op'[p].cbCount = 1
              /\ op'[p].cbRet = KeyRet(op[p].key)
              /\ op'[p].key = op[p].key
              /\ op'[p].started = Last(op[p].attempts)]_vars

C35_Witness ==
    /\ op[Caller].verb = "put"
    /\ Succeeded(Caller)
    /\ op[Caller].attempts = <<E1, E2, E3>>
    /\ op[Caller].firstKey = "K1"
    /\ op[Caller].key = "K2"
    /\ op[Caller].cbRet = KeyRet("K2")

\* ----------------------------------------------------------------- C36
\* C36: when one endpoint of the pool answers every request with success
\* and every attempt on another endpoint fails with a transport error,
\* every bodyless operation ends, and ends in success within its retry
\* budget, whatever the initial order of the pool and with operations
\* running concurrently.
C36_EventuallySucceeds ==
    /\ [](\A p \in Clients :
            op[p].pc = "done" =>
                /\ Succeeded(p)
                /\ Last(op[p].attempts) = Good
                /\ Len(op[p].attempts) <= Len(bootstrap))
    /\ \A p \in Clients :
          (op[p].pc = "running") ~> (op[p].pc = "done" /\ Succeeded(p))

C36_Witness ==
    /\ bootstrap = <<E2, E1, E3>>
    /\ op["c1"].attempts = <<E1, E3, E2>>
    /\ rotations = 2
    /\ \A p \in Clients :
          /\ Succeeded(p)
          /\ Len(op[p].attempts) = 3
          /\ op[p].attempts[1] = op["c1"].attempts[1]

\* C37: in a streaming put attempt voluntaryAbort is true only if
\* streamingStarted is true, the listener that sets it being installed when
\* the streaming starts; so the retryable flag of every transport error of a
\* put is the one streamingStarted alone gives: "false" once the streaming
\* has started, "true" before, whether the stream was aborted or not.
C37_AbortOnlyAfterStreamingStarted ==
    /\ [](\A p \in Clients : op[p].voluntaryAbort =>
            /\ op[p].streamingStarted
            /\ op[p].verb = "put")
    /\ [][\A p \in Clients : (ErrorStep(p) /\ op[p].verb = "put") =>
            /\ Retried(p) => ~op[p].streamingStarted
            /\ op'[p].pc = "done" =>
                  /\ op'[p].cbErr.isErr
                  /\ op'[p].cbErr.retryable =
                        IF op[p].streamingStarted THEN "false" ELSE "true"]_vars

\* A put whose stream was destroyed after the streaming had started: the
\* request was aborted and its error was delivered as not retryable.
C37_Witness ==
    /\ op[Caller].verb = "put"
    /\ op[Caller].pc = "done"
    /\ op[Caller].stream = "destroyed"
    /\ op[Caller].voluntaryAbort
    /\ op[Caller].streamingStarted
    /\ op[Caller].aborted
    /\ op[Caller].cbCount = 1
    /\ op[Caller].cbErr.isErr
    /\ op[Caller].cbErr.retryable = "false"

\* ----------------------------------------------------------------- C38
\* C38: in batchDelete, from the step in which a sub-batch completes with
\* an error on, no batch that was not yet dispatched is sent; the
\* sub-requests then in flight, at most 4, stay in flight until their own
\* outcome completes them, and none of these outcomes invokes the aggregate
\* callback again.
C38_NoDispatchAfterError ==
    /\ [](Failed # {} =>
            /\ Cardinality(InFlight) <= Limit - 1
            /\ batch.cbCount = 1)
    /\ [][/\ (\E i \in 1..Len(batch.sub) : SubFails(i)) =>
                Len(batch'.sub) = Len(batch.sub)
          /\ Failed # {} =>
                /\ Len(batch'.sub) = Len(batch.sub)
                /\ batch'.batches = batch.batches
                /\ batch'.cbCount = batch.cbCount
                /\ batch'.cbErr = batch.cbErr
                /\ \A i \in InFlight :
                      \/ batch'.sub[i].pc = "running"
                      \/ /\ batch'.sub[i].pc = "done"
                         /\ batch'.sub[i].cbCount = 1
                /\ \A i \in 1..Len(batch.sub) \ InFlight :
                      batch'.sub[i] = batch.sub[i]]_vars

\* Six batches, the first answered with an error while four others were in
\* flight: the four have since run to completion, two of them with errors
\* of their own, the sixth batch was never sent and the callback fired once
\* with the first error.
C38_Witness ==
    /\ Len(batch.batches) = Limit + 1
    /\ Len(batch.sub) = Limit
    /\ InFlight = {}
    /\ Cardinality(Failed) = 3
    /\ batch.sub[1].cbErr.isErr
    /\ ~batch.sub[2].cbErr.isErr
    /\ batch.cbCount = 1
    /\ batch.cbErr = batch.sub[1].cbErr
    /\ batch.cbErr.isExpected
    /\ \E i \in Failed : ~batch.sub[i].cbErr.isExpected

\* ----------------------------------------------------------------- C39
\* C39: batchDelete consumes its argument.  Once the call has split the
\* list into batches the caller's list.keys is empty, however long it was,
\* and stays empty whatever the outcome of the sub-requests; the keys are
\* all in the batches.
C39_ListConsumed ==
    batch.pc = "called" =>
        /\ batch.keys = 0
        /\ batch.n > 0 =>
              /\ batch.batches # <<>>
              /\ Last(batch.batches).hi = batch.n

\* A list of 5001 keys, split into six batches of which one has failed
\* and one has succeeded: the caller's list is empty.
C39_Witness ==
    /\ batch.pc = "called"
    /\ batch.n = Limit * BatchSize + 1
    /\ batch.keys = 0
    /\ Len(batch.batches) = Limit + 1
    /\ Failed # {}
    /\ \E i \in 1..Len(batch.sub) :
          /\ batch.sub[i].pc = "done"
          /\ ~batch.sub[i].cbErr.isErr
====
